---- MODULE Spec2Model ----
(***************************************************************************)
(* Model of anondbot 1.2.2 (src/anondbot/anondbot.py, twitter.py): the     *)
(* polling daemon AnondBotDaemon.  One process at a time runs the loop of  *)
(* run(): check_recent_articles, check_hot_entries, sleep.  The state file *)
(* (config_file_path) survives the process; everything else is in memory.  *)
(***************************************************************************)
EXTENDS Integers, Sequences, FiniteSets, TLC

\* ---------------------------------------------------------------- bounds
MaxTs == 2          \* article timestamps are 1..MaxTs (daemon runs)
MaxFeed == 2        \* number of <item>s in one feed document (daemon runs)
CycleTs == 3        \* article timestamps are 1..CycleTs (single cycle)
CycleFeed == 3      \* number of <item>s in one feed document (single cycle)
NumHot == 1         \* number of distinct hot entry URLs (daemon runs)
PassHot == 4        \* number of distinct hot entry URLs (single pass)
MaxBody == 5        \* length of an article body
UrlLen == 39        \* length of an article URL

\* ------------------------------------------------------- program constants
hot_entry_threshold == 2      \* config['hot_entry_threshold']
tweet_length_limit == 140     \* twitter_config['tweet_length_limit']
short_url_length_default == 23
CodeRateLimit == 88
CodeDuplicate == 187
CodeOther == 1

\* ------------------------------------------------------------ data model
Kinds == {"plain", "trackback", "ng"}

\* AnondArticle as far as check_recent_articles looks at it: its timestamp,
\* and whether has_trackback or an ng_pattern holds of it.  The texts of an
\* article only reach post_twitter, which is modelled on its own below.
AnondArticle == [ts : 1..MaxTs, kind : Kinds]

CycleArticle == [ts : 1..CycleTs, kind : Kinds]

\* lines 252-253 without the test: no article is taken for a trackback
has_trackback_never(article) == FALSE

has_trackback(article) == article.kind = "trackback"

ng_match(article) == article.kind = "ng"

RECURSIVE SeqsUpTo(_, _)
SeqsUpTo(S, n) ==
    IF n = 0 THEN {<< >>}
    ELSE LET shorter == SeqsUpTo(S, n - 1)
         IN  shorter \cup {Append(s, x) : s \in {t \in shorter : Len(t) = n - 1}, x \in S}

\* the feed documents the server can deliver: items in delivery order
Feeds == SeqsUpTo(AnondArticle, MaxFeed)

CycleFeeds == SeqsUpTo(CycleArticle, CycleFeed)

\* line 188 without reversed(): the items in delivery order
not_reversed(s) == s

\* line 188: reversed(soup.find_all('item'))
reversed(s) == [i \in 1..Len(s) |-> s[Len(s) + 1 - i]]

HotUrls == 1..NumHot

\* one hot entry list: bookmark count per listed URL
HotLists ==
    UNION {[U -> {hot_entry_threshold - 1, hot_entry_threshold}] : U \in SUBSET HotUrls}

PassUrls == 1..PassHot

PassLists ==
    UNION {[U -> {hot_entry_threshold - 1, hot_entry_threshold}] : U \in SUBSET PassUrls}

\* line 225 without the difference: every hot entry counts as new
changed_all(current, last) == current

\* line 225: hot_entries.keys() - self.last_hot_entries
changed(current, last) == current \ last

\* TwitterError.from_code
from_code(code) ==
    IF code = CodeRateLimit THEN "TwitterRateLimitExceeded"
    ELSE IF code = CodeDuplicate THEN "TwitterStatusDuplicate"
    ELSE "TwitterError"

TwitterErrors == {"TwitterRateLimitExceeded", "TwitterStatusDuplicate", "TwitterError"}

\* "except TwitterStatusDuplicate" for "except TwitterError"
caught_duplicate_only(r) == r = "TwitterStatusDuplicate"

\* "except TwitterError": the class and its two subclasses are caught
caught(r) == r \in TwitterErrors

\* what one call of statuses.update can do: return, raise a TwitterError
\* built by from_code, or raise something else (requests / r.json())
call_api_results ==
    {"ok", "transport"} \cup {from_code(c) : c \in {CodeRateLimit, CodeDuplicate, CodeOther}}

\* line 143 and line 148: the configuration used when none can be fetched
DefaultTwitterConfig == [short_url_length |-> short_url_length_default,
                         tweet_length_limit |-> tweet_length_limit]

\* self.twitter_config before the first assignment: no such attribute
Unset == [unset |-> TRUE]

\* no twitter_config.json in the cache directory
NoCache == [missing |-> TRUE]

VARIABLES
    pc,                          \* position of the process in run()
    exit_status,                 \* -1 while running, else the exit status
    dry_run,                     \* self.dry_run
    file_ok,                     \* the state file holds a complete document
    file_last_article_timestamp, \* last_article_timestamp in the state file
    file_last_hot_entries,       \* last_hot_entries in the state file
                                 \* (while file_ok is FALSE: the values of the
                                 \* last complete document; nothing reads them)
    config_last_article_timestamp, \* self.config['last_article_timestamp']
    config_last_hot_entries,     \* self.config['last_hot_entries']
    last_article_timestamp,      \* self.last_article_timestamp
    last_hot_entries,            \* self.last_hot_entries
    feed,                        \* the fetched document, delivery order
    articles,                    \* what the generator has left to yield
    article,                     \* loop variable of check_recent_articles
    hot_entries,                 \* dict url -> bookmark count (check_hot_entries)
    changed_hot_entry_urls,      \* URLs still to post in check_hot_entries
    outcome,                     \* result of the last post_twitter call
    last_log,                    \* level of the last log record
    fault,                       \* the operation that raised into run()
    exception,                   \* the exception run() has to handle
    cursor_at_fetch,             \* history: the cursor when the cycle began
    update_calls,                \* history: per article, whether statuses.update
                                 \* was called never, once, or again after that
    cycle_attempts,              \* history: feed positions passed to post_twitter
    hot_before,                  \* history: last_hot_entries when the pass began
    hot_posts,                   \* history: URLs passed to post_twitter in the pass
    server_feed,                 \* the document a server with a fixed feed serves
    cache_file,                  \* content of twitter_config.json in the cache dir
    help_result,                 \* what help.configuration() does at startup
    spc,                         \* position in __init__, lines 132-148
    twitter_config,              \* self.twitter_config
    title, body, url,            \* arguments of one post_twitter call
    quoted,                      \* local "body" of post_twitter at line 285
    status,                      \* local "status" of post_twitter at line 291
    fpc                          \* position in that post_twitter call

vars == <<pc, exit_status, dry_run, file_ok, file_last_article_timestamp,
          file_last_hot_entries, config_last_article_timestamp,
          config_last_hot_entries, last_article_timestamp, last_hot_entries,
          feed, articles, article, hot_entries, changed_hot_entry_urls,
          outcome, last_log, fault, exception, cursor_at_fetch, update_calls,
          cycle_attempts, hot_before, hot_posts,
          server_feed, cache_file, help_result, spc,
          twitter_config, title, body, url, quoted, status, fpc>>

\* what only __init__ touches, and the feed of the server
startVars == <<server_feed, cache_file, help_result, spc>>

hotHist == <<hot_before, hot_posts>>

fmtVars == <<twitter_config, title, body, url, quoted, status, fpc>>

fileVars == <<file_ok, file_last_article_timestamp, file_last_hot_entries>>

configVars == <<config_last_article_timestamp, config_last_hot_entries>>

hotVars == <<last_hot_entries, hot_entries, changed_hot_entry_urls>>

NoArticle == [ts |-> 0, kind |-> "plain"]

\* AnondBotDaemon.__init__: load the state file into self.config and fields
Load ==
    /\ config_last_article_timestamp' = file_last_article_timestamp
    /\ config_last_hot_entries' = file_last_hot_entries
    /\ last_article_timestamp' = file_last_article_timestamp
    /\ last_hot_entries' = file_last_hot_entries

Init ==
    /\ pc = "loop"
    /\ exit_status = -1
    /\ dry_run \in BOOLEAN
    /\ file_ok = TRUE
    /\ file_last_article_timestamp = 0
    /\ file_last_hot_entries = {}
    /\ config_last_article_timestamp = 0
    /\ config_last_hot_entries = {}
    /\ last_article_timestamp = 0
    /\ last_hot_entries = {}
    /\ feed = << >>
    /\ articles = << >>
    /\ article = NoArticle
    /\ hot_entries = << >>
    /\ changed_hot_entry_urls = {}
    /\ outcome = "none"
    /\ last_log = "debug"
    /\ fault = "none"
    /\ exception = "none"
    /\ cursor_at_fetch = 0
    /\ update_calls = [a \in AnondArticle |-> "never"]
    /\ cycle_attempts = << >>
    /\ hot_before = {}
    /\ hot_posts = << >>
    /\ server_feed = << >>
    /\ cache_file = NoCache
    /\ help_result = "none"
    /\ spc = "idle"
    /\ twitter_config = DefaultTwitterConfig
    /\ title = << >>
    /\ body = << >>
    /\ url = << >>
    /\ quoted = << >>
    /\ status = << >>
    /\ fpc = "idle"

\* an exception leaves check_recent_articles or check_hot_entries: their
\* locals and the generator are gone, run() has to handle it.  res is what
\* the publish call did, if it was one that raised.
Raise(exc, why, res) ==
    /\ pc' = "except"
    /\ exception' = exc
    /\ fault' = why
    /\ outcome' = res
    /\ feed' = << >>
    /\ articles' = << >>
    /\ article' = NoArticle
    /\ hot_entries' = << >>
    /\ changed_hot_entry_urls' = {}
    /\ cycle_attempts' = << >>
    /\ cursor_at_fetch' = 0
    /\ UNCHANGED <<exit_status, dry_run, last_article_timestamp,
                   last_hot_entries, last_log>>

\* ---------------------------------------------------- check_recent_articles
\* get_anond_articles up to its first yield: requests.get of the feed, then a
\* generator over reversed(soup.find_all('item')).  F is the set of documents
\* the server may answer with; a failing request raises into run().
get_anond_articles(F) ==
    /\ pc = "loop"
    /\ UNCHANGED <<fmtVars, startVars>>
    /\ UNCHANGED hotHist
    /\ \/ /\ Raise("Exception", "feed_fetch", "none")
          /\ UNCHANGED <<fileVars, configVars, update_calls>>
       \/ \E doc \in F :
            /\ feed' = doc
            /\ articles' = reversed(doc)
            /\ cycle_attempts' = << >>
            /\ cursor_at_fetch' = last_article_timestamp
            /\ pc' = "next"
            /\ last_log' = "info"
            /\ UNCHANGED <<exit_status, dry_run, fileVars, configVars,
                           last_article_timestamp, hotVars, article, outcome,
                           fault, exception, update_calls>>

\* lines 246-247 without the test: every article of the feed is taken
already_posted_never(cursor, a) == FALSE

\* line 246 with ">" for ">=": an article as old as the cursor is taken again
already_posted_strict(cursor, a) == cursor > a.ts

\* line 246 with "==" for ">=": an article older than the cursor is taken
already_posted_equal(cursor, a) == cursor = a.ts

\* line 246: is the article older than (or as old as) the cursor
already_posted(cursor, a) == cursor >= a.ts

\* one turn of "for article in articles": the generator builds the next
\* AnondArticle (parsing its fields may raise), lines 246-249 skip it or
\* advance the cursor; an exhausted generator ends check_recent_articles.
next_article ==
    /\ pc = "next"
    /\ UNCHANGED <<fmtVars, startVars>>
    /\ UNCHANGED hotHist
    /\ IF articles = << >>
       THEN /\ pc' = "hot"
            /\ feed' = << >>
            /\ article' = NoArticle
            /\ outcome' = "none"
            /\ cycle_attempts' = << >>
            /\ cursor_at_fetch' = 0
            /\ UNCHANGED <<exit_status, dry_run, fileVars, configVars,
                           last_article_timestamp, hotVars, articles, last_log,
                           fault, exception, update_calls>>
       ELSE \/ /\ Raise("Exception", "feed_parse", "none")
               /\ UNCHANGED <<fileVars, configVars, update_calls>>
            \/ /\ article' = Head(articles)
               /\ articles' = Tail(articles)
               /\ outcome' = "none"
               /\ IF already_posted(last_article_timestamp, Head(articles))
                  THEN /\ pc' = "next"
                       /\ UNCHANGED last_article_timestamp
                  ELSE /\ pc' = "classify"
                       /\ last_article_timestamp' = Head(articles).ts
               /\ UNCHANGED <<exit_status, dry_run, fileVars, configVars, hotVars,
                              feed, last_log, fault, exception, cursor_at_fetch, update_calls, cycle_attempts>>

\* lines 252-258: a trackback or an ng_patterns match leaves the loop body
classify ==
    /\ pc = "classify"
    /\ UNCHANGED <<fmtVars, startVars>>
    /\ UNCHANGED hotHist
    /\ IF has_trackback(article) THEN pc' = "next"
       ELSE IF ng_match(article) THEN pc' = "next"
       ELSE pc' = "post"
    /\ UNCHANGED <<exit_status, dry_run, fileVars, configVars,
                   last_article_timestamp, hotVars, feed, articles, article,
                   outcome, last_log, fault, exception, cursor_at_fetch, update_calls, cycle_attempts>>

\* line 291 without the test: statuses.update is called in a dry run too
publishes_always(dry) == TRUE

\* line 291: if not self.dry_run
publishes(dry) == ~dry

\* position of the loop variable in the delivered document
article_pos == Len(articles) + 1

Bump(calls, a) == [calls EXCEPT ![a] = IF @ = "never" THEN "once" ELSE "again"]

\* lines 261-264: post_twitter inside try/except TwitterError.  With dry_run
\* the status is only logged; otherwise statuses.update is called and may
\* return, raise a TwitterError (caught, logger.error) or raise anything
\* else (not caught here: it reaches the bare except of run()).
post_article ==
    /\ pc = "post"
    /\ UNCHANGED <<fmtVars, startVars>>
    /\ UNCHANGED hotHist
    /\ IF ~publishes(dry_run)
       THEN /\ outcome' = "dry"
            /\ last_log' = "info"
            /\ pc' = "save"
            /\ cycle_attempts' = Append(cycle_attempts, article_pos)
            /\ UNCHANGED <<exit_status, dry_run, fileVars, configVars,
                           last_article_timestamp, hotVars, feed, articles,
                           article, fault, exception, cursor_at_fetch, update_calls>>
       ELSE \E r \in call_api_results :
            /\ update_calls' = Bump(update_calls, article)
            /\ IF r = "ok" \/ caught(r)
               THEN /\ outcome' = r
                    /\ last_log' = IF r = "ok" THEN "info" ELSE "error"
                    /\ pc' = "save"
                    /\ cycle_attempts' = Append(cycle_attempts, article_pos)
                    /\ UNCHANGED <<exit_status, dry_run, fileVars, configVars,
                                   last_article_timestamp, hotVars, feed,
                                   articles, article, fault, exception, cursor_at_fetch>>
               ELSE /\ Raise("Exception", "transport", r)
                    /\ UNCHANGED <<fileVars, configVars>>

\* line 267 with the value the file was loaded with: progress is not saved
saved_timestamp_stale(cursor) == 0

\* line 267: the value stored under 'last_article_timestamp'
saved_timestamp(cursor) == cursor

\* lines 267-268: self.config[...] = cursor, then open(path, 'w'), which
\* empties the file or raises
save_open ==
    /\ pc = "save"
    /\ UNCHANGED <<fmtVars, startVars>>
    /\ UNCHANGED hotHist
    /\ config_last_article_timestamp' = saved_timestamp(last_article_timestamp)
    /\ UNCHANGED <<config_last_hot_entries, update_calls,
                   file_last_article_timestamp, file_last_hot_entries>>
    /\ \/ /\ Raise("Exception", "write", "none")
          /\ UNCHANGED file_ok
       \/ /\ file_ok' = FALSE
          /\ pc' = "write"
          /\ UNCHANGED <<exit_status, dry_run, last_article_timestamp, hotVars,
                         feed, articles, article, outcome, last_log, fault, exception, cursor_at_fetch,
                         cycle_attempts>>

\* line 269: json.dump(self.config, f) writes the whole document or raises
save_dump ==
    /\ pc = "write"
    /\ UNCHANGED <<fmtVars, startVars>>
    /\ UNCHANGED <<configVars, update_calls, hotHist>>
    /\ \/ /\ Raise("Exception", "write", "none")
          /\ UNCHANGED fileVars
       \/ /\ file_ok' = TRUE
          /\ file_last_article_timestamp' = config_last_article_timestamp
          /\ file_last_hot_entries' = config_last_hot_entries
          /\ pc' = "next"
          /\ UNCHANGED <<exit_status, dry_run, last_article_timestamp, hotVars,
                         feed, articles, article, outcome, last_log, fault, exception, cursor_at_fetch,
                         cycle_attempts>>

\* -------------------------------------------------------- check_hot_entries
\* lines 218-224: takewhile over the list sorted by bookmark count keeps the
\* entries at or above the threshold
takewhile_hot(list) ==
    [u \in {v \in DOMAIN list : list[v] >= hot_entry_threshold} |-> list[u]]

\* lines 218-226: get_hot_entries (may raise), the dict of hot entries, the
\* URLs that are new, and the in-memory snapshot.  H is the set of lists the
\* server may answer with.
get_hot_entries(H) ==
    /\ pc = "hot"
    /\ UNCHANGED <<fmtVars, startVars>>
    /\ \/ /\ Raise("Exception", "hot_fetch", "none")
          /\ UNCHANGED <<fileVars, configVars, update_calls, hotHist>>
       \/ \E list \in H :
            /\ hot_entries' = takewhile_hot(list)
            /\ hot_before' = last_hot_entries
            /\ hot_posts' = << >>
            /\ changed_hot_entry_urls' = changed(DOMAIN takewhile_hot(list), last_hot_entries)
            /\ last_hot_entries' = DOMAIN takewhile_hot(list)
            /\ pc' = "hotpost"
            /\ last_log' = "info"
            /\ UNCHANGED <<exit_status, dry_run, fileVars, configVars,
                           last_article_timestamp, feed, articles, article,
                           outcome, fault, exception, cursor_at_fetch, update_calls, cycle_attempts>>

\* lines 228-234: one turn of "for url in changed_hot_entry_urls"
post_hot_entry ==
    /\ pc = "hotpost"
    /\ UNCHANGED <<fmtVars, startVars>>
    /\ changed_hot_entry_urls # {}
    /\ \E u \in changed_hot_entry_urls :
         IF ~publishes(dry_run)
         THEN /\ changed_hot_entry_urls' = changed_hot_entry_urls \ {u}
              /\ hot_posts' = Append(hot_posts, u)
              /\ UNCHANGED hot_before
              /\ outcome' = "dry"
              /\ last_log' = "info"
              /\ UNCHANGED <<pc, exit_status, dry_run, fileVars, configVars,
                             last_article_timestamp, last_hot_entries,
                             hot_entries, feed, articles, article, fault, exception, cursor_at_fetch,
                             update_calls, cycle_attempts>>
         ELSE \E r \in call_api_results :
              IF r = "ok" \/ caught(r)
              THEN /\ changed_hot_entry_urls' = changed_hot_entry_urls \ {u}
                   /\ hot_posts' = Append(hot_posts, u)
                   /\ UNCHANGED hot_before
                   /\ outcome' = r
                   /\ last_log' = IF r = "ok" THEN "info" ELSE "error"
                   /\ UNCHANGED <<pc, exit_status, dry_run, fileVars,
                                  configVars, last_article_timestamp,
                                  last_hot_entries, hot_entries, feed, articles,
                                  article, fault, exception, cursor_at_fetch, update_calls, cycle_attempts>>
              ELSE /\ Raise("Exception", "transport", r)
                   /\ hot_before' = {}
                   /\ hot_posts' = << >>
                   /\ UNCHANGED <<fileVars, configVars, update_calls>>

\* lines 236-237: self.config['last_hot_entries'] = ..., then open(path, 'w')
hot_save_open ==
    /\ pc = "hotpost"
    /\ UNCHANGED <<fmtVars, startVars>>
    /\ changed_hot_entry_urls = {}
    /\ config_last_hot_entries' = last_hot_entries
    /\ UNCHANGED <<config_last_article_timestamp, update_calls,
                   file_last_article_timestamp, file_last_hot_entries>>
    /\ \/ /\ Raise("Exception", "write", "none")
          /\ hot_before' = {}
          /\ hot_posts' = << >>
          /\ UNCHANGED file_ok
       \/ /\ file_ok' = FALSE
          /\ pc' = "hotwrite"
          /\ UNCHANGED hotHist
          /\ UNCHANGED <<exit_status, dry_run, last_article_timestamp, hotVars,
                         feed, articles, article, outcome, last_log, fault, exception, cursor_at_fetch,
                         cycle_attempts>>

\* line 238: json.dump, then back in run(): the debug log and time.sleep
hot_save_dump ==
    /\ pc = "hotwrite"
    /\ UNCHANGED <<fmtVars, startVars>>
    /\ UNCHANGED <<configVars, update_calls>>
    /\ hot_before' = {}
    /\ hot_posts' = << >>
    /\ \/ /\ Raise("Exception", "write", "none")
          /\ UNCHANGED fileVars
       \/ /\ file_ok' = TRUE
          /\ file_last_article_timestamp' = config_last_article_timestamp
          /\ file_last_hot_entries' = config_last_hot_entries
          /\ pc' = "loop"
          /\ hot_entries' = << >>
          /\ outcome' = "none"
          /\ last_log' = "debug"
          /\ UNCHANGED <<exit_status, dry_run, last_article_timestamp,
                         last_hot_entries, changed_hot_entry_urls, feed,
                         articles, article, fault, exception, cursor_at_fetch, cycle_attempts>>

\* ------------------------------------------------------------------- run()
\* a termination request arrives at any point of the loop: SystemExit raised
\* by the signal handler of the daemon context, or KeyboardInterrupt
exit_request ==
    /\ pc \notin {"except", "exited"}
    /\ UNCHANGED <<fmtVars, startVars>>
    /\ hot_before' = {}
    /\ hot_posts' = << >>
    /\ \E exc \in {"SystemExit", "KeyboardInterrupt"} : Raise(exc, "signal", "none")
    /\ UNCHANGED <<fileVars, configVars, update_calls>>

\* lines 171, 174, 177-178: the level of the handler's log record
handler_log(exc) ==
    IF exc \in {"SystemExit", "KeyboardInterrupt"} THEN "info" ELSE "critical"

\* every handler ending in a plain sys.exit()
handler_status_zero(exc) == {0}

\* lines 172, 175, 179: the exit status: the one SystemExit carries when it
\* is re-raised, 0 for sys.exit(), 1 for sys.exit(1)
handler_status(exc) ==
    IF exc = "SystemExit" THEN {0, 1}
    ELSE IF exc = "KeyboardInterrupt" THEN {0}
    ELSE {1}

\* lines 170-179: SystemExit is logged and re-raised with the status it
\* carries, KeyboardInterrupt is logged and ends in sys.exit(), anything else
\* is logged as critical and ends in sys.exit(1)
run_except ==
    /\ pc = "except"
    /\ UNCHANGED <<fmtVars, startVars>>
    /\ UNCHANGED hotHist
    /\ pc' = "exited"
    /\ last_log' = handler_log(exception)
    /\ exit_status' \in handler_status(exception)
    /\ UNCHANGED <<dry_run, fileVars, configVars, last_article_timestamp, hotVars,
                   feed, articles, article, outcome, fault, exception,
                   cursor_at_fetch, update_calls, cycle_attempts>>

\* a new process: __init__ reads the state file (json.load raises on an
\* incomplete document, so there is no process then), run() enters the loop.
\* The query of the service limits in __init__ (lines 132-148) is followed
\* step by step in SpecStart; here it has succeeded.
restart ==
    /\ pc = "exited"
    /\ UNCHANGED <<fmtVars, startVars>>
    /\ UNCHANGED hotHist
    /\ file_ok
    /\ Load
    /\ pc' = "loop"
    /\ exit_status' = -1
    /\ fault' = "none"
    /\ exception' = "none"
    /\ outcome' = "none"
    /\ last_log' = "debug"
    /\ UNCHANGED <<dry_run, fileVars, feed, articles, article, hot_entries,
                   changed_hot_entry_urls, cursor_at_fetch, update_calls,
                   cycle_attempts>>

Next ==
    \/ get_anond_articles(Feeds)
    \/ next_article
    \/ classify
    \/ post_article
    \/ save_open
    \/ save_dump
    \/ get_hot_entries(HotLists)
    \/ post_hot_entry
    \/ hot_save_open
    \/ hot_save_dump
    \/ exit_request
    \/ run_except
    \/ restart

Spec == Init /\ [][Next]_vars

\* ------------------------------------------------------------ post_twitter
\* characters of a body: two letters and two kinds of whitespace
Whitespace == {" ", "\n"}

BodyChars == {"a", "b"} \cup Whitespace

\* str.strip(): drop leading and trailing whitespace
RECURSIVE lstrip(_)
lstrip(s) ==
    IF s # << >> /\ Head(s) \in Whitespace THEN lstrip(Tail(s)) ELSE s

RECURSIVE rstrip(_)
rstrip(s) ==
    IF s # << >> /\ s[Len(s)] \in Whitespace
    THEN rstrip(SubSeq(s, 1, Len(s) - 1)) ELSE s

strip(s) == rstrip(lstrip(s))

\* re.sub(r'\s+', ' ', s): every maximal run of whitespace becomes one space
RECURSIVE collapse(_)
collapse(s) ==
    IF s = << >> THEN << >>
    ELSE IF Head(s) \in Whitespace
    THEN <<" ">> \o collapse(lstrip(s))
    ELSE <<Head(s)>> \o collapse(Tail(s))

\* s[:k] of Python: a negative k counts from the end
slice_to(s, k) ==
    IF k >= 0 THEN SubSeq(s, 1, IF k < Len(s) THEN k ELSE Len(s))
    ELSE SubSeq(s, 1, IF Len(s) + k > 0 THEN Len(s) + k ELSE 0)

Ellipsis == <<".", ".", ".">>

\* lines 272-279: max_body_length as it stands at line 282
max_body_length(cfg, t, b) ==
    cfg.tweet_length_limit - cfg.short_url_length
      - (IF Len(t) # 0 THEN Len(t) + 1 ELSE 0)
      - (IF Len(b) # 0 THEN 3 ELSE 0)

\* lines 278-283: the local "body" after normalisation and truncation
post_twitter_body(cfg, t, b) ==
    IF Len(b) # 0
    THEN LET norm == collapse(strip(b))
         IN  IF Len(norm) > max_body_length(cfg, t, b)
             THEN slice_to(norm, max_body_length(cfg, t, b) - 3) \o Ellipsis
             ELSE norm
    ELSE b

\* lines 285-289: the status
post_twitter_status(cfg, t, b, u) ==
    LET q == post_twitter_body(cfg, t, b)
        s1 == IF Len(q) # 0 THEN <<"\"">> \o q \o <<"\"", " ">> \o u ELSE u
    IN  IF Len(t) # 0 THEN t \o <<" ">> \o s1 ELSE s1

\* one call post_twitter(title, body, url), up to line 291
post_twitter ==
    /\ fpc = "call"
    /\ quoted' = post_twitter_body(twitter_config, title, body)
    /\ status' = post_twitter_status(twitter_config, title, body, url)
    /\ fpc' = "done"
    /\ UNCHANGED <<pc, exit_status, dry_run, fileVars, configVars,
                   last_article_timestamp, hotVars, feed, articles, article,
                   outcome, last_log, fault, exception, cursor_at_fetch, update_calls, cycle_attempts,
                   hotHist, startVars,
                   twitter_config, title, body, url>>

Repeat(c, n) == [i \in 1..n |-> c]

\* titles: only the length counts.  Besides the empty and a short title, the
\* lengths that leave a body budget between -MaxBody and MaxBody + 1
TitleLens ==
    {0, 1} \cup
    ((tweet_length_limit - short_url_length_default - 5 - MaxBody) ..
     (tweet_length_limit - short_url_length_default - 4 + MaxBody))

Titles == {Repeat("t", n) : n \in TitleLens}

Bodies == SeqsUpTo(BodyChars, MaxBody)

Urls == {Repeat("u", n) : n \in {short_url_length_default - 1, UrlLen}}

TwitterConfigs ==
    {[short_url_length |-> n, tweet_length_limit |-> tweet_length_limit] :
        n \in {short_url_length_default - 1, short_url_length_default}}

\* post_twitter called with any title, body and url
InitFormat ==
    /\ pc = "post"
    /\ exit_status = -1
    /\ dry_run = TRUE
    /\ file_ok = TRUE
    /\ file_last_article_timestamp = 0
    /\ file_last_hot_entries = {}
    /\ config_last_article_timestamp = 0
    /\ config_last_hot_entries = {}
    /\ last_article_timestamp = 0
    /\ last_hot_entries = {}
    /\ feed = << >>
    /\ articles = << >>
    /\ article = NoArticle
    /\ hot_entries = << >>
    /\ changed_hot_entry_urls = {}
    /\ outcome = "none"
    /\ last_log = "debug"
    /\ fault = "none"
    /\ exception = "none"
    /\ cursor_at_fetch = 0
    /\ update_calls = [a \in AnondArticle |-> "never"]
    /\ cycle_attempts = << >>
    /\ hot_before = {}
    /\ hot_posts = << >>
    /\ server_feed = << >>
    /\ cache_file = NoCache
    /\ help_result = "none"
    /\ spc = "idle"
    /\ twitter_config \in TwitterConfigs
    /\ title \in Titles
    /\ body \in Bodies
    /\ url \in Urls
    /\ quoted = << >>
    /\ status = << >>
    /\ fpc = "call"

NextFormat == post_twitter

SpecFormat == InitFormat /\ [][NextFormat]_vars

\* the length Twitter counts: the URL weighs short_url_length characters
tweet_length(cfg, s, u) == Len(s) - Len(u) + cfg.short_url_length

\* One call of check_recent_articles, by a process that has loaded any cursor
\* from its state file, on any feed document of up to CycleFeed items.
InitCycle ==
    /\ pc = "loop"
    /\ exit_status = -1
    /\ dry_run \in BOOLEAN
    /\ file_ok = TRUE
    /\ file_last_article_timestamp \in 0..CycleTs
    /\ file_last_hot_entries = {}
    /\ config_last_article_timestamp = file_last_article_timestamp
    /\ config_last_hot_entries = {}
    /\ last_article_timestamp = file_last_article_timestamp
    /\ last_hot_entries = {}
    /\ feed = << >>
    /\ articles = << >>
    /\ article = NoArticle
    /\ hot_entries = << >>
    /\ changed_hot_entry_urls = {}
    /\ outcome = "none"
    /\ last_log = "debug"
    /\ fault = "none"
    /\ exception = "none"
    /\ cursor_at_fetch = 0
    /\ update_calls = [a \in CycleArticle |-> "never"]
    /\ cycle_attempts = << >>
    /\ hot_before = {}
    /\ hot_posts = << >>
    /\ server_feed = << >>
    /\ cache_file = NoCache
    /\ help_result = "none"
    /\ spc = "idle"
    /\ twitter_config = DefaultTwitterConfig
    /\ title = << >>
    /\ body = << >>
    /\ url = << >>
    /\ quoted = << >>
    /\ status = << >>
    /\ fpc = "idle"

NextCycle ==
    \/ get_anond_articles(CycleFeeds)
    \/ next_article
    \/ classify
    \/ post_article
    \/ save_open
    \/ save_dump
    \/ run_except

SpecCycle == InitCycle /\ [][NextCycle]_vars

\* One pass of check_hot_entries, by a process that has loaded any
\* last_hot_entries from its state file, on any list of up to PassHot entries.
InitHot ==
    /\ pc = "hot"
    /\ exit_status = -1
    /\ dry_run \in BOOLEAN
    /\ file_ok = TRUE
    /\ file_last_article_timestamp = 0
    /\ file_last_hot_entries \in SUBSET PassUrls
    /\ config_last_article_timestamp = file_last_article_timestamp
    /\ config_last_hot_entries = file_last_hot_entries
    /\ last_article_timestamp = file_last_article_timestamp
    /\ last_hot_entries = file_last_hot_entries
    /\ feed = << >>
    /\ articles = << >>
    /\ article = NoArticle
    /\ hot_entries = << >>
    /\ changed_hot_entry_urls = {}
    /\ outcome = "none"
    /\ last_log = "debug"
    /\ fault = "none"
    /\ exception = "none"
    /\ cursor_at_fetch = 0
    /\ update_calls = [a \in AnondArticle |-> "never"]
    /\ cycle_attempts = << >>
    /\ hot_before = {}
    /\ hot_posts = << >>
    /\ server_feed = << >>
    /\ cache_file = NoCache
    /\ help_result = "none"
    /\ spc = "idle"
    /\ twitter_config = DefaultTwitterConfig
    /\ title = << >>
    /\ body = << >>
    /\ url = << >>
    /\ quoted = << >>
    /\ status = << >>
    /\ fpc = "idle"

NextHot ==
    \/ get_hot_entries(PassLists)
    \/ post_hot_entry
    \/ hot_save_open
    \/ hot_save_dump
    \/ run_except

SpecHot == InitHot /\ [][NextHot]_vars

\* ------------------------------------------------- __init__, lines 132-148
\* what help/configuration answers: only short_url_length is used
ServerConfigs ==
    {[short_url_length |-> n] :
        n \in {short_url_length_default - 1, short_url_length_default}}

\* line 140: json.load(f) as an expression statement: the document is read
\* and dropped, self.twitter_config stays what it was
loaded(current, cached) == current

\* lines 133-137, 144-145: help.configuration() returns, raises a
\* TwitterError (caught) or raises anything else (leaves __init__)
init_fetch ==
    /\ spc = "fetch"
    /\ \E r \in call_api_results :
         /\ help_result' = r
         /\ IF r = "ok"
            THEN /\ \E c \in ServerConfigs : twitter_config' = c
                 /\ last_log' = "debug"
                 /\ spc' = "dump"
            ELSE IF caught(r)
            THEN /\ last_log' = "info"
                 /\ spc' = "load"
                 /\ UNCHANGED twitter_config
            ELSE /\ spc' = "failed"
                 /\ UNCHANGED <<twitter_config, last_log>>
    /\ UNCHANGED <<pc, exit_status, dry_run, fileVars, configVars,
                   last_article_timestamp, hotVars, feed, articles, article,
                   outcome, fault, exception, cursor_at_fetch, update_calls,
                   cycle_attempts, hotHist, server_feed, cache_file,
                   title, body, url, quoted, status, fpc>>

\* lines 146-147: the answer is written to the cache file, or open raises
init_dump ==
    /\ spc = "dump"
    /\ \/ /\ cache_file' = twitter_config
          /\ spc' = "limit"
       \/ /\ spc' = "failed"
          /\ UNCHANGED cache_file
    /\ UNCHANGED <<pc, exit_status, dry_run, fileVars, configVars,
                   last_article_timestamp, hotVars, feed, articles, article,
                   outcome, last_log, fault, exception, cursor_at_fetch,
                   update_calls, cycle_attempts, hotHist, server_feed,
                   help_result, fmtVars>>

\* lines 138-143: the cache file is opened and read; without a file the
\* default is taken
init_load ==
    /\ spc = "load"
    /\ IF cache_file = NoCache
       THEN /\ twitter_config' = [short_url_length |-> short_url_length_default]
            /\ last_log' = "error"
       ELSE /\ twitter_config' = loaded(twitter_config, cache_file)
            /\ UNCHANGED last_log
    /\ spc' = "limit"
    /\ UNCHANGED <<pc, exit_status, dry_run, fileVars, configVars,
                   last_article_timestamp, hotVars, feed, articles, article,
                   outcome, fault, exception, cursor_at_fetch, update_calls,
                   cycle_attempts, hotHist, server_feed, cache_file,
                   help_result, title, body, url, quoted, status, fpc>>

\* line 148: self.twitter_config['tweet_length_limit'] = 140, an
\* AttributeError when nothing was assigned to self.twitter_config
init_limit ==
    /\ spc = "limit"
    /\ IF twitter_config = Unset
       THEN /\ spc' = "failed"
            /\ UNCHANGED twitter_config
       ELSE /\ spc' = "ready"
            /\ twitter_config' =
                 [short_url_length |-> twitter_config.short_url_length,
                  tweet_length_limit |-> tweet_length_limit]
    /\ UNCHANGED <<pc, exit_status, dry_run, fileVars, configVars,
                   last_article_timestamp, hotVars, feed, articles, article,
                   outcome, last_log, fault, exception, cursor_at_fetch,
                   update_calls, cycle_attempts, hotHist, server_feed,
                   cache_file, help_result, title, body, url, quoted, status,
                   fpc>>

\* The construction of the daemon: any cursor in the state file, any cache
\* file, any answer of the service
InitStart ==
    /\ pc = "init"
    /\ exit_status = -1
    /\ dry_run \in BOOLEAN
    /\ file_ok = TRUE
    /\ file_last_article_timestamp \in 0..MaxTs
    /\ file_last_hot_entries = {}
    /\ config_last_article_timestamp = file_last_article_timestamp
    /\ config_last_hot_entries = file_last_hot_entries
    /\ last_article_timestamp = file_last_article_timestamp
    /\ last_hot_entries = file_last_hot_entries
    /\ feed = << >>
    /\ articles = << >>
    /\ article = NoArticle
    /\ hot_entries = << >>
    /\ changed_hot_entry_urls = {}
    /\ outcome = "none"
    /\ last_log = "debug"
    /\ fault = "none"
    /\ exception = "none"
    /\ cursor_at_fetch = 0
    /\ update_calls = [a \in AnondArticle |-> "never"]
    /\ cycle_attempts = << >>
    /\ hot_before = {}
    /\ hot_posts = << >>
    /\ server_feed = << >>
    /\ cache_file \in {NoCache} \cup ServerConfigs
    /\ help_result = "none"
    /\ spc = "fetch"
    /\ twitter_config = Unset
    /\ title = << >>
    /\ body = << >>
    /\ url = << >>
    /\ quoted = << >>
    /\ status = << >>
    /\ fpc = "idle"

NextStart ==
    \/ init_fetch
    \/ init_dump
    \/ init_load
    \/ init_limit

SpecStart == InitStart /\ [][NextStart]_vars

\* The daemon against a server whose feed document does not change and whose
\* hot entry list is empty, killed and started again any number of times.
InitCrash ==
    /\ pc = "loop"
    /\ exit_status = -1
    /\ dry_run = FALSE
    /\ file_ok = TRUE
    /\ file_last_article_timestamp = 0
    /\ file_last_hot_entries = {}
    /\ config_last_article_timestamp = 0
    /\ config_last_hot_entries = {}
    /\ last_article_timestamp = 0
    /\ last_hot_entries = {}
    /\ feed = << >>
    /\ articles = << >>
    /\ article = NoArticle
    /\ hot_entries = << >>
    /\ changed_hot_entry_urls = {}
    /\ outcome = "none"
    /\ last_log = "debug"
    /\ fault = "none"
    /\ exception = "none"
    /\ cursor_at_fetch = 0
    /\ update_calls = [a \in AnondArticle |-> "never"]
    /\ cycle_attempts = << >>
    /\ hot_before = {}
    /\ hot_posts = << >>
    /\ server_feed \in Feeds
    /\ cache_file = NoCache
    /\ help_result = "none"
    /\ spc = "idle"
    /\ twitter_config = DefaultTwitterConfig
    /\ title = << >>
    /\ body = << >>
    /\ url = << >>
    /\ quoted = << >>
    /\ status = << >>
    /\ fpc = "idle"

NextCrash ==
    \/ get_anond_articles({server_feed})
    \/ next_article
    \/ classify
    \/ post_article
    \/ save_open
    \/ save_dump
    \/ get_hot_entries({<< >>})
    \/ hot_save_open
    \/ hot_save_dump
    \/ exit_request
    \/ run_except
    \/ restart

SpecCrash == InitCrash /\ [][NextCrash]_vars

TypeOK ==
    /\ pc \in {"loop", "next", "classify", "post", "save", "write", "hot",
               "hotpost", "hotwrite", "except", "exited"}
    /\ exit_status \in {-1, 0, 1}
    /\ dry_run \in BOOLEAN
    /\ file_ok \in BOOLEAN
    /\ last_article_timestamp \in Nat
    /\ file_last_article_timestamp \in Nat
    /\ config_last_article_timestamp \in Nat
    /\ last_hot_entries \subseteq HotUrls
    /\ file_last_hot_entries \subseteq HotUrls
    /\ article \in DOMAIN update_calls \cup {NoArticle}
    /\ outcome \in {"none", "dry"} \cup call_api_results
    /\ exception \in {"none", "Exception", "SystemExit", "KeyboardInterrupt"}
    /\ \A a \in DOMAIN update_calls : update_calls[a] \in {"never", "once", "again"}

\* --------------------------------------------------------------- properties
Recoverable == {"TwitterStatusDuplicate", "TwitterRateLimitExceeded"}

\* C1: an article whose timestamp is <= the cursor when the loop reaches it
\* is passed over: the step that takes it leads neither to the classifier nor
\* to post_twitter, and leaves the cursor, self.config, the state file and
\* the record of publish calls as they were.
C1_OldArticleSkipped ==
    [][(pc = "next" /\ articles # << >>
          /\ Head(articles).ts <= last_article_timestamp)
       => /\ pc' \in {"next", "except"}
          /\ last_article_timestamp' = last_article_timestamp
          /\ config_last_article_timestamp' = config_last_article_timestamp
          /\ file_ok' = file_ok
          /\ file_last_article_timestamp' = file_last_article_timestamp
          /\ file_last_hot_entries' = file_last_hot_entries
          /\ update_calls' = update_calls
          /\ (pc' = "next" => cycle_attempts' = cycle_attempts)]_vars

\* an article that was published in an earlier cycle has just been passed over
C1_Witness ==
    /\ pc = "next"
    /\ article \in AnondArticle
    /\ article.kind = "plain"
    /\ article.ts < last_article_timestamp
    /\ cursor_at_fetch = file_last_article_timestamp
    /\ update_calls[article] = "once"
    /\ outcome = "none"

StrictlyDecreasing(f) == \A i, j \in DOMAIN f : i < j => f[i].ts > f[j].ts

\* C2: the feed positions passed to post_twitter within a cycle are in the
\* reverse of the delivery order; and when a cycle has gone through a feed
\* delivered newest first (T_n < ... < T_1) whose items are all newer than
\* the cursor the cycle began with and none of which the classifier skips,
\* post_twitter was called for all of them, oldest first, and the cursor is
\* the newest timestamp T_1.
C2_OldestFirst ==
    /\ \A i, j \in DOMAIN cycle_attempts :
          i < j => cycle_attempts[i] > cycle_attempts[j]
    /\ (pc = "next" /\ articles = << >> /\ feed # << >>
          /\ StrictlyDecreasing(feed)
          /\ cursor_at_fetch < feed[Len(feed)].ts
          /\ \A p \in DOMAIN feed : feed[p].kind = "plain")
       => /\ cycle_attempts = [i \in 1..Len(feed) |-> Len(feed) + 1 - i]
          /\ last_article_timestamp = feed[1].ts

\* a cycle over three items T3 > T2 > T1 has attempted T1, T2, T3
C2_Witness ==
    /\ pc = "next"
    /\ articles = << >>
    /\ Len(feed) = 3
    /\ StrictlyDecreasing(feed)
    /\ cursor_at_fetch < feed[3].ts
    /\ cycle_attempts = <<3, 2, 1>>
    /\ last_article_timestamp = feed[1].ts

\* C3: whenever the loop body is left for the next article, after a skip by
\* the classifier as well as after a publish attempt, the state file holds
\* the timestamp of the article just processed.
C3_PersistedAfterEveryItem ==
    [][(pc \in {"classify", "post", "save", "write"} /\ pc' = "next")
       => (file_ok' /\ file_last_article_timestamp' = article.ts)]_vars

C5_OtherFailureNotFatal ==
    [][(pc = "post" /\ outcome' \in {"TwitterError", "transport"})
       => (pc' = "save" /\ exit_status' = -1 /\ exception' = "none")]_vars

\* C6: statuses.update is called at most once for any article, over all
\* cycles, outcomes, exits and restarts.
C6_AtMostOnce == \A a \in DOMAIN update_calls : update_calls[a] # "again"

\* C7: the status built by post_twitter, with its URL counted as
\* short_url_length characters, is never longer than tweet_length_limit.
C7_StatusWithinLimit ==
    fpc = "done" =>
        tweet_length(twitter_config, status, url) <= twitter_config.tweet_length_limit

\* C8: with budget = limit - short_url_length - (len(title)+1 if title) - 3,
\* a normalised body longer than the budget is rendered as its first
\* budget-3 characters followed by '...', any other body unchanged.
C8_TruncatedToBudget ==
    fpc = "done" =>
        LET norm == collapse(strip(body))
            budget == twitter_config.tweet_length_limit
                        - twitter_config.short_url_length
                        - (IF Len(title) # 0 THEN Len(title) + 1 ELSE 0) - 3
        IN  IF Len(norm) > budget
            THEN quoted = SubSeq(norm, 1, budget - 3) \o Ellipsis
            ELSE quoted = norm

\* C9 as stated: neither the in-memory cursor nor the persisted
\* last_article_timestamp ever takes a smaller value than it held before.
C9_BothMonotonic ==
    [][/\ last_article_timestamp' >= last_article_timestamp
       /\ file_last_article_timestamp' >= file_last_article_timestamp]_vars

\* C9 (amended): the persisted last_article_timestamp never decreases; the
\* in-memory cursor never decreases within the lifetime of one process and
\* is never below the persisted value; the start of a new process sets the
\* in-memory cursor to the persisted value.
C9_MonotonicPerProcess ==
    [][/\ file_last_article_timestamp' >= file_last_article_timestamp
       /\ last_article_timestamp' >= file_last_article_timestamp'
       /\ (pc # "exited" => last_article_timestamp' >= last_article_timestamp)
       /\ (pc = "exited" /\ pc' # "exited"
             => last_article_timestamp' = file_last_article_timestamp)]_vars

\* a process has ended with its cursor ahead of a persisted cursor that had
\* itself advanced: the next process starts below the cursor of this one
C9_Witness ==
    /\ pc = "exited"
    /\ file_ok
    /\ file_last_article_timestamp > 0
    /\ last_article_timestamp > file_last_article_timestamp

\* C10: after a failure to retrieve the article feed or the hot entry list
\* the daemon is still alive (it has not exited and is not about to).
C10_FetchFailureSurvived ==
    fault \in {"feed_fetch", "feed_parse", "hot_fetch"}
        => (pc \notin {"except", "exited"} /\ exit_status = -1)

Range(f) == {f[i] : i \in DOMAIN f}

C12_StartupAlwaysConfigured ==
    /\ spc # "failed"
    /\ spc = "ready"
        => /\ "short_url_length" \in DOMAIN twitter_config
           /\ help_result = "ok"
                => cache_file = [short_url_length |-> twitter_config.short_url_length]
           /\ (help_result # "ok" /\ cache_file # NoCache)
                => twitter_config.short_url_length = cache_file.short_url_length
           /\ (help_result # "ok" /\ cache_file = NoCache)
                => twitter_config.short_url_length = short_url_length_default

\* C13: in a dry run statuses.update is never called and no publish result
\* or publish failure ever occurs: every post_twitter call ends as "dry".  A
\* call that ends as "dry" and a call whose publish succeeded have the same
\* effect on everything but the record of publish calls: the status is
\* logged (info); for an article the save comes next, which leaves cursor,
\* self.config and state file equal to the timestamp of the article; for a
\* hot entry the next URL comes next, and at the end of the pass the save of
\* the current hot set.
C13_DryRunSameProgress ==
    [][/\ dry_run
          => /\ update_calls' = update_calls
             /\ outcome' \in {"none", "dry"}
             /\ fault' # "transport"
             /\ (pc = "post" /\ fault' # "signal") => outcome' = "dry"
             /\ (pc = "hotpost" /\ pc' = "hotpost") => outcome' = "dry"
       /\ (~dry_run => outcome' # "dry")
       /\ (pc = "post" /\ outcome' \in {"dry", "ok"})
          => /\ pc' = "save"
             /\ last_log' = "info"
             /\ cycle_attempts' = Append(cycle_attempts, article_pos)
             /\ UNCHANGED <<last_article_timestamp, article, articles,
                            fileVars, configVars, hotVars>>
       /\ (pc = "write" /\ pc' = "next")
          => /\ file_last_article_timestamp' = article.ts
             /\ config_last_article_timestamp' = article.ts
             /\ last_article_timestamp' = article.ts
       /\ (pc = "hotpost" /\ pc' = "hotpost" /\ outcome' \in {"dry", "ok"})
          => /\ last_log' = "info"
             /\ Len(hot_posts') = Len(hot_posts) + 1
             /\ UNCHANGED <<last_hot_entries, hot_entries, fileVars,
                            configVars, last_article_timestamp>>
       /\ (pc = "hotwrite" /\ pc' = "loop")
          => /\ file_last_hot_entries' = DOMAIN hot_entries
             /\ last_hot_entries' = DOMAIN hot_entries]_vars

\* a dry run has logged the status of an article and saved its timestamp,
\* after an earlier pass saved a hot entry it had logged
C13_Witness ==
    /\ dry_run
    /\ pc = "next"
    /\ outcome = "dry"
    /\ article.kind = "plain"
    /\ file_ok
    /\ file_last_article_timestamp = article.ts
    /\ file_last_hot_entries # {}

\* C14: an exception other than a shutdown request that leaves a cycle (a
\* failed fetch or parse, a publish failure that is no TwitterError, a failed
\* write of the state file) is logged as critical and ends the process with
\* status 1; KeyboardInterrupt and SystemExit are logged as info, and
\* KeyboardInterrupt ends it with status 0.  In an ended process nothing is
\* fetched, published or persisted, and the only way on is a new process
\* that starts from the state file.
C14_FatalExitsOnce ==
    [][/\ (pc' = "except" /\ fault' # "signal") => exception' = "Exception"
       /\ (pc' = "except" /\ fault' = "signal")
            => exception' \in {"SystemExit", "KeyboardInterrupt"}
       /\ pc = "except"
            => /\ pc' = "exited"
               /\ UNCHANGED <<fileVars, update_calls, feed, hot_entries>>
               /\ exception = "Exception"
                    => (last_log' = "critical" /\ exit_status' = 1)
               /\ exception # "Exception" => last_log' = "info"
               /\ exception = "KeyboardInterrupt" => exit_status' = 0
       /\ pc = "exited"
            => /\ exit_status # -1
               /\ UNCHANGED <<fileVars, update_calls, feed, hot_entries>>
               /\ pc' = "loop"
               /\ exit_status' = -1
               /\ last_article_timestamp' = file_last_article_timestamp
               /\ last_hot_entries' = file_last_hot_entries]_vars

\* a process has ended with status 1 and a critical log after a failed write
\* of the state file that followed a successful publish
C14_Witness ==
    /\ pc = "exited"
    /\ fault = "write"
    /\ exception = "Exception"
    /\ exit_status = 1
    /\ last_log = "critical"
    /\ \E a \in DOMAIN update_calls : update_calls[a] # "never"

\* C15: when the body budget of a post_twitter call is below 3 (or
\* negative) and the normalised body is longer than the budget, the body is
\* rendered as '...' alone: no character of it is kept.
C15_EllipsisOnlyWhenNoRoom ==
    (fpc = "done" /\ Len(body) # 0) =>
        LET norm == collapse(strip(body))
            budget == max_body_length(twitter_config, title, body)
        IN  (budget < 3 /\ Len(norm) > budget) => quoted = Ellipsis

\* the articles given to statuses.update that are newer than the persisted
\* cursor: what a process started from the state file can submit again
Unsaved ==
    {a \in DOMAIN update_calls :
        update_calls[a] # "never" /\ a.ts > file_last_article_timestamp}

\* C16: against a feed that stays the same, whenever the process may die
\* there is at most one article that was submitted to statuses.update and is
\* newer than the persisted cursor (the one in flight: submitted, its
\* timestamp not yet saved); an article is submitted a second time only if
\* it is that article, so a process started after a death submits at most
\* that one again.
C16_OnlyInFlightResubmitted ==
    /\ [](Cardinality(Unsaved) <= 1)
    /\ [][(update_calls' # update_calls /\ update_calls[article] # "never")
            => Unsaved = {article}]_vars

\* the article that was in flight when a process died has been submitted
\* again by the next process, after an older article was submitted and saved
C16_Witness ==
    /\ pc = "save"
    /\ update_calls[article] = "again"
    /\ file_last_article_timestamp > 0
    /\ Unsaved = {article}

\* the articles of the fetched feed that the cycle has still to attempt:
\* newer than the cursor the cycle began with, accepted by the classifier
\* (no trackback, no ng_patterns match), not yet passed to post_twitter
ToAttempt ==
    {p \in DOMAIN feed :
        /\ feed[p].ts > cursor_at_fetch
        /\ ~has_trackback(feed[p])
        /\ ~ng_match(feed[p])
        /\ p \notin Range(cycle_attempts)}

\* C17 as stated: at every point of check_recent_articles, whatever the
\* feed, every article that is still to attempt has a timestamp greater
\* than the persisted cursor.
C17_NoGapAnyFeed ==
    pc \in {"next", "classify", "post", "save", "write"}
        => \A p \in ToAttempt : feed[p].ts > file_last_article_timestamp

\* C17 (amended): at every point of check_recent_articles over a feed
\* delivered newest first with strictly decreasing timestamps, every article
\* that is still to attempt has a timestamp greater than the persisted
\* cursor.
C17_NoGapOrderedFeed ==
    (pc \in {"next", "classify", "post", "save", "write"}
       /\ StrictlyDecreasing(feed))
        => \A p \in ToAttempt : feed[p].ts > file_last_article_timestamp

\* in a feed of three articles, newest first, the oldest has been attempted
\* and its timestamp saved; the two newer ones are still to attempt
C17_Witness ==
    /\ pc = "next"
    /\ Len(feed) = 3
    /\ StrictlyDecreasing(feed)
    /\ cycle_attempts = <<3>>
    /\ ToAttempt = {1, 2}
    /\ file_last_article_timestamp = feed[3].ts

\* C18: in every reachable state, also between the opening of the state
\* file for writing and the end of the write and in a process that has died
\* there, the file holds a complete document (the previous state or the new
\* one), so that a new process can load it.
C18_StateFileAlwaysComplete ==
    file_ok /\ file_last_article_timestamp \in Nat

C20_AttemptsStrictlyIncreasing ==
    /\ [](\A i \in DOMAIN cycle_attempts :
            /\ cycle_attempts[i] \in DOMAIN feed
            /\ feed[cycle_attempts[i]].ts > cursor_at_fetch
            /\ feed[cycle_attempts[i]].ts <= last_article_timestamp
            /\ \A j \in DOMAIN cycle_attempts :
                 i < j => feed[cycle_attempts[i]].ts < feed[cycle_attempts[j]].ts)
    /\ [][/\ pc' = "classify"
              => /\ pc = "next"
                 /\ article'.ts > last_article_timestamp
                 /\ last_article_timestamp' = article'.ts
          /\ pc' = "post"
              => /\ pc = "classify"
                 /\ article' = article
                 /\ article.ts = last_article_timestamp'
          /\ cycle_attempts' \notin {cycle_attempts, << >>}
              => /\ pc = "post"
                 /\ cycle_attempts' = Append(cycle_attempts, article_pos)
                 /\ feed[article_pos] = article
          /\ pc # "exited"
              => last_article_timestamp' >= last_article_timestamp]_vars

\* a feed of two accepted articles with one timestamp has been gone through:
\* the one delivered last was attempted, the other passed over
C20_Witness ==
    /\ pc = "next"
    /\ articles = << >>
    /\ Len(feed) = 2
    /\ feed[1].ts = feed[2].ts
    /\ ~has_trackback(feed[1]) /\ ~ng_match(feed[1])
    /\ ~has_trackback(feed[2]) /\ ~ng_match(feed[2])
    /\ cycle_attempts = <<2>>

====
